---- MODULE Spec2Model ----
(***************************************************************************)
(* A model of the snapshot testing library (package snapshot).             *)
(*                                                                         *)
(* Strings and byte slices are sequences of tokens; a token stands for one *)
(* byte ("\r", "\n", "/") or for a run of ordinary bytes ("testdata").     *)
(* A cleaned file path is the sequence of its '/'-separated elements.      *)
(* The file system maps every path to a node: nothing, a directory or a    *)
(* regular file with its bytes.                                            *)
(***************************************************************************)
EXTENDS Integers, Sequences, FiniteSets, TLC

VARIABLES fs, runner, tb, pc, loc, prev, given, hue, arg, ret

vars == <<fs, runner, tb, pc, loc, prev, given, hue, arg, ret>>

\* the state of the Runner's sessions, and that of a call of the resolver
running == <<fs, runner, tb, pc, loc, prev, given, hue>>
resolving == <<arg, ret>>

-----------------------------------------------------------------------------
(* Strings and bytes *)

CR == "\r"
LF == "\n"
Slash == "/"

RECURSIVE ReplaceCRLF(_)
\* bytes.ReplaceAll(b, "\r\n", "\n")
ReplaceCRLF(b) ==
    IF Len(b) = 0 THEN <<>>
    ELSE IF Len(b) >= 2 /\ b[1] = CR /\ b[2] = LF
         THEN <<LF>> \o ReplaceCRLF(SubSeq(b, 3, Len(b)))
         ELSE <<b[1]>> \o ReplaceCRLF(Tail(b))

RECURSIVE HasCRLF(_)
HasCRLF(b) ==
    IF Len(b) < 2 THEN FALSE
    ELSE (b[1] = CR /\ b[2] = LF) \/ HasCRLF(Tail(b))

\* the pattern matches at the start of b
MatchesAt(pattern, b) ==
    Len(pattern) <= Len(b) /\ SubSeq(b, 1, Len(pattern)) = pattern

\* a replace-all that loses the last byte of its input
RECURSIVE ReplaceAll_DropsTail(_, _)
ReplaceAll_DropsTail(f, b) ==
    IF Len(b) <= 1 THEN <<>>
    ELSE IF MatchesAt(f.pattern, b)
         THEN f.replacement \o ReplaceAll_DropsTail(f, SubSeq(b, Len(f.pattern) + 1, Len(b)))
         ELSE <<b[1]>> \o ReplaceAll_DropsTail(f, Tail(b))

\* regexp.ReplaceAll for a pattern that matches one literal, non-empty text
\* (f.pattern) and a replacement without '$': the matches are taken leftmost
\* first and do not overlap
RECURSIVE ReplaceAll(_, _)
ReplaceAll(f, b) ==
    IF Len(b) = 0 THEN <<>>
    ELSE IF MatchesAt(f.pattern, b)
         THEN f.replacement \o ReplaceAll(f, SubSeq(b, Len(f.pattern) + 1, Len(b)))
         ELSE <<b[1]>> \o ReplaceAll(f, Tail(b))

\* a loop over the filters from the last registered to the first
RECURSIVE ApplyFilters_LastFirst(_, _)
ApplyFilters_LastFirst(filters, b) ==
    IF Len(filters) = 0 THEN b
    ELSE ApplyFilters_LastFirst(SubSeq(filters, 1, Len(filters) - 1),
                                ReplaceAll(filters[Len(filters)], b))

\* the loop over r.filters: each filter works on the output of the one before
RECURSIVE ApplyFilters(_, _)
ApplyFilters(filters, b) ==
    IF Len(filters) = 0 THEN b
    ELSE ApplyFilters(Tail(filters), ReplaceAll(Head(filters), b))

-----------------------------------------------------------------------------
(* Paths *)

\* strings.Split(s, "/") as filepath.Clean sees the elements of a path
RECURSIVE SplitPath(_, _)
SplitPath(s, cur) ==
    IF Len(s) = 0 THEN <<cur>>
    ELSE IF s[1] = Slash THEN <<cur>> \o SplitPath(Tail(s), <<>>)
         ELSE SplitPath(Tail(s), Append(cur, s[1]))

\* filepath.Clean on the elements: empty and "." elements go, ".." takes the
\* element before it with it (a leading ".." of a relative path stays)
RECURSIVE CleanElems(_, _)
CleanElems(elems, acc) ==
    IF Len(elems) = 0 THEN acc
    ELSE LET e == Head(elems) IN
         IF e = <<>> \/ e = <<".">> THEN CleanElems(Tail(elems), acc)
         ELSE IF e = <<"..">> /\ Len(acc) > 0 /\ acc[Len(acc)] # <<"..">>
              THEN CleanElems(Tail(elems), SubSeq(acc, 1, Len(acc) - 1))
              ELSE CleanElems(Tail(elems), Append(acc, e))

\* filepath.Join(a, b): the two joined by a separator, then cleaned
Join(a, b) == CleanElems(SplitPath(a \o <<Slash>> \o b, <<>>), <<>>)

\* filepath.Dir of a cleaned path: all but its last element
Dir(p) == IF Len(p) = 0 THEN <<>> ELSE SubSeq(p, 1, Len(p) - 1)

IsPrefix(p, q) == Len(p) <= Len(q) /\ SubSeq(q, 1, Len(p)) = p

Prefixes(p) == {SubSeq(p, 1, n) : n \in 1..Len(p)}

\* filepath.Join("testdata", "snapshots")
SnapshotsBase == <<"testdata", Slash, "snapshots">>

\* Runner.Path: base joined with tb.Name() + formatter.Ext()
PathOf(name, ext) == Join(SnapshotsBase, name \o ext)

-----------------------------------------------------------------------------
(* Inputs *)

\* test identities (tb.Name()): a top-level test and two of its subtests
Names == {<<"TestA">>, <<"TestA", Slash, "x">>, <<"TestA", Slash, "y">>}

SnapExt == <<".snap">>

\* the extension SnapShotter.Path gives every artifact
TxtExt == <<".snap", ".txt">>

\* values handed to Snap
Values == {"v1", "v2", "v3", "v4", "v5", "v6"}

Ok(b) == [err |-> FALSE, bytes |-> b]
Failure == [err |-> TRUE, bytes |-> <<>>]

\* a Formatter supplied through WithFormatter: what its Format returns for
\* each value, and its Ext
RawFormatter ==
    [kind |-> "custom", ext |-> SnapExt,
     out |-> [v \in Values |->
                CASE v = "v1" -> Ok(<<"a", LF>>)
                  [] v = "v2" -> Ok(<<"b", LF>>)
                  [] v = "v3" -> Ok(<<"a", CR, LF>>)
                  [] v = "v5" -> Ok(<<"b", CR, LF>>)
                  [] v = "v6" -> Ok(<<"a", CR, LF, "a", LF>>)
                  [] OTHER    -> Failure]]

Formatters == {RawFormatter}

\* the customFormatter of the tests: one constant text for every value, and
\* an extension of its own
CustomFormatter ==
    [kind |-> "custom", ext |-> <<".custom", ".txt">>,
     out |-> [v \in Values |-> Ok(<<"CONSTANT">>)]]

\* the description a test gives its snapshots
About == <<"about">>

\* Formatter.Format
Format(f, v) == f.out[v]

BtoA == [pattern |-> <<"b">>, replacement |-> <<"a">>]

FilterLists == {<<>>, <<BtoA>>}

\* a filter whose pattern regexp.Compile rejects
BadParen == [pattern |-> <<"(">>, replacement |-> <<"a">>]

-----------------------------------------------------------------------------
(* File system *)

NoEnt == [kind |-> "none", data |-> <<>>]
DirNode == [kind |-> "dir", data |-> <<>>]
FileNode(b) == [kind |-> "file", data |-> b]

AllPaths ==
    UNION ({Prefixes(PathOf(n, f.ext)) : n \in Names, f \in Formatters \cup {CustomFormatter}}
           \cup {Prefixes(PathOf(n, TxtExt)) : n \in Names})

EmptyFS == [p \in AllPaths |-> NoEnt]

\* the node a path names ("" is the working directory, which exists)
Node(fsys, p) == IF p = <<>> THEN DirNode ELSE fsys[p]

\* an element on the way to p is a regular file (ENOTDIR)
ThroughFile(fsys, p) ==
    \E q \in Prefixes(p) : q # p /\ fsys[q].kind = "file"

\* os.Stat: "file", "dir", "notexist" (fs.ErrNotExist) or "error"
Stat(fsys, p) ==
    IF ThroughFile(fsys, p) THEN "error"
    ELSE IF Node(fsys, p).kind = "none" THEN "notexist"
    ELSE Node(fsys, p).kind

\* a RemoveAll that removes nothing
RemoveAll_Nothing(fsys, p) == fsys

\* os.RemoveAll: the path and everything below it; a missing path is no error
RemoveAll(fsys, p) ==
    [q \in AllPaths |-> IF IsPrefix(p, q) THEN NoEnt ELSE fsys[q]]

\* os.MkdirAll fails when an element of the path is a regular file
MkdirAllFails(fsys, p) == \E q \in Prefixes(p) : fsys[q].kind = "file"

\* os.Mkdir in place of os.MkdirAll: only the last directory
MkdirAll_LastOnly(fsys, p) == [fsys EXCEPT ![p] = DirNode]

MkdirAll(fsys, p) ==
    [q \in AllPaths |-> IF IsPrefix(q, p) THEN DirNode ELSE fsys[q]]

\* os.WriteFile fails when the parent is no directory or the path is one
WriteFileFails(fsys, p) ==
    \/ Node(fsys, Dir(p)).kind # "dir"
    \/ fsys[p].kind = "dir"

WriteFile(fsys, p, b) == [fsys EXCEPT ![p] = FileNode(b)]

ReadFileFails(fsys, p) == Stat(fsys, p) # "file"

\* a read that answers with the bytes the call before found, when there was
\* one
ReadFile_Remembered(fsys, p) ==
    IF prev[1].value # "none" /\ prev[1].fs0[p].kind = "file"
    THEN prev[1].fs0[p].data
    ELSE fsys[p].data

\* a read that hands back the bytes as the session's filters leave them
ReadFile_Filtered(fsys, p) == ApplyFilters(runner[1].filters, fsys[p].data)

ReadFile(fsys, p) == fsys[p].data

-----------------------------------------------------------------------------
(* Diff and its rendering *)

Nil == <<"nil">>

\* diff.Diff(oldName, old, newName, new): nil when the two are equal, else a
\* unified diff: the two file headers, a hunk header, the old bytes marked
\* '-' and the new bytes marked '+'
Diff(oldName, old, newName, new) ==
    IF old = new THEN Nil
    ELSE <<"-", "-", "-", " ", oldName, LF, "+", "+", "+", " ", newName, LF,
           "@", "@", LF, "-", " ">> \o old \o <<LF, "+", " ">> \o new

\* strings.Split(s, "\n")
RECURSIVE SplitLines(_, _)
SplitLines(s, cur) ==
    IF Len(s) = 0 THEN <<cur>>
    ELSE IF s[1] = LF THEN <<cur>> \o SplitLines(Tail(s), <<>>)
         ELSE SplitLines(Tail(s), Append(cur, s[1]))

\* strings.Join(lines, "\n")
RECURSIVE JoinLines(_)
JoinLines(lines) ==
    IF Len(lines) = 0 THEN <<>>
    ELSE IF Len(lines) = 1 THEN lines[1]
         ELSE lines[1] \o <<LF>> \o JoinLines(Tail(lines))

IsSpace(c) == c \in {" ", "\t", CR, LF}

\* strings.TrimSpace
RECURSIVE TrimLeft(_)
TrimLeft(s) == IF Len(s) > 0 /\ IsSpace(s[1]) THEN TrimLeft(Tail(s)) ELSE s

RECURSIVE TrimRight(_)
TrimRight(s) ==
    IF Len(s) > 0 /\ IsSpace(s[Len(s)])
    THEN TrimRight(SubSeq(s, 1, Len(s) - 1))
    ELSE s

TrimSpace(s) == TrimRight(TrimLeft(s))

\* strings.HasPrefix
HasPrefix(s, p) == IsPrefix(p, s)

\* hue's Style.Sprint: the text between the style's escape code and a reset
Sprint(style, line) == <<style>> \o line \o <<"reset">>

\* a loop body that looks at the line as it is, not trimmed
ColourLine_NoTrim(line) ==
    LET l1 == IF HasPrefix(line, <<"-", "-", "-">>) \/ HasPrefix(line, <<"-", " ">>)
              THEN Sprint("red", line) ELSE line
        l2 == IF HasPrefix(line, <<"@", "@">>)
              THEN Sprint("header", l1) ELSE l1
        l3 == IF HasPrefix(line, <<"+", "+", "+">>) \/ HasPrefix(line, <<"+", " ">>)
              THEN Sprint("green", l2) ELSE l2
    IN  l3

\* the body of prettyDiff's loop for one line
ColourLine(line) ==
    LET trimmed == TrimSpace(line)
        l1 == IF HasPrefix(trimmed, <<"-", "-", "-">>) \/ HasPrefix(trimmed, <<"-", " ">>)
              THEN Sprint("red", line) ELSE line
        l2 == IF HasPrefix(trimmed, <<"@", "@">>)
              THEN Sprint("header", l1) ELSE l1
        l3 == IF HasPrefix(trimmed, <<"+", "+", "+">>) \/ HasPrefix(trimmed, <<"+", " ">>)
              THEN Sprint("green", l2) ELSE l2
    IN  l3

\* a renderer that does not look at noColor
prettyDiff_AlwaysColour(diff, noColor) ==
    LET lines == SplitLines(diff, <<>>)
    IN  JoinLines([i \in 1..Len(lines) |-> ColourLine(lines[i])])

prettyDiff(diff, noColor) ==
    IF noColor THEN diff
    ELSE LET lines == SplitLines(diff, <<>>)
         IN  JoinLines([i \in 1..Len(lines) |-> ColourLine(lines[i])])

-----------------------------------------------------------------------------
(* Formatters *)

NilFormatter == [kind |-> "nil"]

InstaExt == <<".snap">>

\* InstaFormatter(description)
InstaFormatter(description) == [kind |-> "insta", description |-> description]

\* Formatter.Ext
Ext(f) == IF f.kind = "insta" THEN InstaExt ELSE f.ext

\* insta's Format: the metadata document, then the value's document
InstaFormat(description, v) ==
    Ok(<<"source", LF>>
       \o (IF description = <<>> THEN <<>> ELSE <<"description">> \o description \o <<LF>>)
       \o <<"expression", LF, "---", LF, v, LF>>)

\* r.formatter.Format(value)
FormatWith(f, v) ==
    IF f.kind = "insta" THEN InstaFormat(f.description, v) ELSE Format(f, v)

-----------------------------------------------------------------------------
(* Options and New *)

Update(update) == [opt |-> "update", flag |-> update]
Clean(clean) == [opt |-> "clean", flag |-> clean]
Color(v) == [opt |-> "color", flag |-> v]
Description(text) == [opt |-> "description", text |-> text]
Filter(f) == [opt |-> "filter", filter |-> f]
WithFormatter(f) == [opt |-> "formatter", formatter |-> f]

\* the Runner New starts from: every field its zero value
ZeroRunner ==
    [description |-> <<>>, formatter |-> NilFormatter, filters |-> <<>>,
     update |-> FALSE, clean |-> FALSE, noColor |-> FALSE]

\* one option applied to the runner
ApplyOption(r, o) ==
    CASE o.opt = "update"      -> [r EXCEPT !.update = o.flag]
      [] o.opt = "clean"       -> [r EXCEPT !.clean = o.flag]
      [] o.opt = "color"       -> [r EXCEPT !.noColor = ~o.flag]
      [] o.opt = "description" -> [r EXCEPT !.description = o.text]
      [] o.opt = "filter"      -> [r EXCEPT !.filters = Append(r.filters, o.filter)]
      [] o.opt = "formatter"   -> [r EXCEPT !.formatter = o.formatter]

\* regexp.Compile accepts the pattern: no group is left open
Compiles(pattern) == \A i \in 1..Len(pattern) : pattern[i] # "("

\* the option returns an error: a filter whose pattern does not compile
OptionFails(o) == o.opt = "filter" /\ ~Compiles(o.filter.pattern)

\* a loop over the options that goes on after an option's error
RECURSIVE ApplyOptions_IgnoreErr(_, _)
ApplyOptions_IgnoreErr(r, options) ==
    IF Len(options) = 0 THEN [runner |-> r, err |-> FALSE]
    ELSE ApplyOptions_IgnoreErr(ApplyOption(r, Head(options)), Tail(options))

\* the loop over the options: it ends at the first option that returns an
\* error, with the runner as the options before it left it
RECURSIVE ApplyOptions(_, _)
ApplyOptions(r, options) ==
    IF Len(options) = 0 THEN [runner |-> r, err |-> FALSE]
    ELSE IF OptionFails(Head(options)) THEN [runner |-> r, err |-> TRUE]
    ELSE ApplyOptions(ApplyOption(r, Head(options)), Tail(options))

\* a New that settles the default formatter before it applies the options
NewRunner_DefaultFirst(options) ==
    LET res == ApplyOptions([ZeroRunner EXCEPT !.formatter = InstaFormatter(<<>>)], options)
    IN  res.runner

\* New: the options in order, then the default formatter; after an option's
\* error the runner is returned as it is
NewRunner(options) ==
    LET res == ApplyOptions(ZeroRunner, options)
        r == res.runner
    IN  IF ~res.err /\ r.formatter.kind = "nil"
        THEN [r EXCEPT !.formatter = InstaFormatter(r.description)]
        ELSE r

\* Runner.Path
Path(s) == PathOf(tb[s].name, Ext(runner[s].formatter))

-----------------------------------------------------------------------------
(* The host test framework *)

FreshTB(name, stops) == [name |-> name, stops |-> stops, failed |-> FALSE, log |-> <<>>]

\* tb.Fatalf: the test is failed and the message written
Fatalf(t, msg) == [t EXCEPT !.failed = TRUE, !.log = Append(t.log, [kind |-> "fatal", msg |-> msg])]

\* a Logf that writes nothing
Logf_Silent(t, msg) == t

\* tb.Logf
Logf(t, msg) == [t EXCEPT !.log = Append(t.log, [kind |-> "log", msg |-> msg])]

-----------------------------------------------------------------------------
(* The resolver of SnapShotter: do *)

\* what a method of the value returns: absent when the value has no such method
Absent == [err |-> FALSE, bytes |-> <<"absent">>]

Has(m) == m # Absent

\* json.MarshalIndent(val, "", "  ") on the bytes MarshalJSON returned: an
\* object's member on a line of its own, two spaces in; anything that is no
\* object is a syntax error
Indent(b) ==
    IF Len(b) < 2 \/ b[1] # "{" \/ b[Len(b)] # "}" THEN Failure
    ELSE IF Len(b) = 2 THEN Ok(b)
    ELSE Ok(<<"{", LF, " ", " ">> \o SubSeq(b, 2, Len(b) - 1) \o <<LF, "}">>)

MarshalIndent(val) == IF val.json.err THEN Failure ELSE Indent(val.json.bytes)

\* the values handed to Snap: the methods a value has with what each returns,
\* whether its type is one of the listed primitive types (which have no
\* methods), and what the %v and %#v verbs print for it
SnapResults == {Absent, Ok(<<"s", CR, LF, "b">>), Failure}
JSONResults == {Absent, Ok(<<"{", "j", "}">>), Ok(<<"{", "}">>), Ok(<<"j">>), Failure}
TextResults == {Absent, Ok(<<"t", "b">>), Failure}
StringResults == {Absent, Ok(<<"b", CR, LF>>)}

DoValues ==
    {v \in [snap : SnapResults, json : JSONResults, text : TextResults,
            str : StringResults, primitive : BOOLEAN,
            v : {<<"p", " ", "b">>}, gov : {<<"g", "{", "b", "}">>}] :
        v.primitive => ~(Has(v.snap) \/ Has(v.json) \/ Has(v.text) \/ Has(v.str))}

\* the strategy the other case order picks
Strategy_StringerFirst(val) ==
    IF Has(val.str) THEN "Stringer"
    ELSE IF Has(val.snap) THEN "Snapper"
    ELSE IF Has(val.json) THEN "json.Marshaler"
    ELSE IF Has(val.text) THEN "encoding.TextMarshaler"
    ELSE IF val.primitive THEN "primitive"
    ELSE "fallback"

\* the case of the type switch that val takes
Strategy(val) ==
    IF Has(val.snap) THEN "Snapper"
    ELSE IF Has(val.json) THEN "json.Marshaler"
    ELSE IF Has(val.text) THEN "encoding.TextMarshaler"
    ELSE IF Has(val.str) THEN "Stringer"
    ELSE IF val.primitive THEN "primitive"
    ELSE "fallback"

\* what the taken case writes to buf, or its error
Serialise(val) ==
    CASE Strategy(val) = "Snapper" -> val.snap
      [] Strategy(val) = "json.Marshaler" -> MarshalIndent(val)
      [] Strategy(val) = "encoding.TextMarshaler" -> val.text
      [] Strategy(val) = "Stringer" -> val.str
      [] Strategy(val) = "primitive" -> Ok(val.v)
      [] OTHER -> Ok(val.gov)

\* SnapShotter.do: the bytes of the snapshot (nil after an error) and the
\* host's state
do(t, filters, val) ==
    LET res == Serialise(val)
    IN  IF res.err
        THEN [strategy |-> Strategy(val), content |-> <<>>, err |-> TRUE,
              tb |-> Fatalf(t, <<Strategy(val), "returned an error">>)]
        ELSE [strategy |-> Strategy(val),
              content |-> ApplyFilters(filters, ReplaceCRLF(res.bytes)),
              err |-> FALSE,
              tb |-> IF Strategy(val) = "fallback"
                     THEN Logf(t, <<"Snap: falling back to GoString">>)
                     ELSE t]

NoArg == [called |-> FALSE]
NoRet == [returned |-> FALSE]

\* a call of do with one value and the filters of one SnapShotter
Do ==
    /\ arg.called
    /\ ~ret.returned
    /\ ret' = [returned |-> TRUE,
               result |-> do(FreshTB(<<"TestA">>, TRUE), arg.filters, arg.value)]
    /\ UNCHANGED arg
    /\ UNCHANGED running

\* another value is handed to the resolver
Again ==
    /\ ret.returned
    /\ \E v \in DoValues, fl \in FilterLists :
          arg' = [called |-> TRUE, value |-> v, filters |-> fl]
    /\ ret' = NoRet
    /\ UNCHANGED running

-----------------------------------------------------------------------------
(* State *)

Sessions == {1, 2}

\* the most Snap calls one test makes
MaxCalls == 2

\* what is known of a Snap call: its argument, its local variables, and for
\* the properties the file system as the call found it (fs0), the step that
\* reported an error (err), whether the environment made that step fail
\* (fault), whether the call failed the test, how the call ended, and which
\* call of the test it is (n)
NoCall == [value |-> "none", exists |-> FALSE, content |-> <<>>,
           fs0 |-> EmptyFS, err |-> "none", fault |-> FALSE,
           failed |-> FALSE, outcome |-> "none", n |-> 0]

NoTB == FreshTB(<<>>, TRUE)

\* what an earlier run of the tests left under testdata/snapshots: nothing,
\* or the snapshot of every test
Populate(fsys, name, ext, b) ==
    WriteFile(MkdirAll(fsys, Dir(PathOf(name, ext))), PathOf(name, ext), b)

PopulatedFS ==
    Populate(Populate(Populate(EmptyFS, <<"TestA">>, SnapExt, <<"a", LF>>),
                      <<"TestA", Slash, "x">>, SnapExt, <<"a", LF>>),
             <<"TestA", Slash, "y">>, SnapExt, <<"a", LF>>)

\* a tree in which the artifact path of TestA is a directory and the
\* directory of TestA's subtests is a regular file
BlockedFS ==
    WriteFile(MkdirAll(EmptyFS, PathOf(<<"TestA">>, SnapExt)),
              Dir(PathOf(<<"TestA", Slash, "x">>, SnapExt)), <<"a", LF>>)

\* the snapshot of TestA as a checkout that converts line endings leaves it
CheckedOutFS ==
    Populate(EmptyFS, <<"TestA">>, SnapExt, <<"a", CR, LF, "a", CR, LF>>)

InitialFS == {EmptyFS, PopulatedFS, BlockedFS, CheckedOutFS}

Init ==
    /\ fs \in InitialFS
    /\ runner = [s \in Sessions |-> ZeroRunner]
    /\ tb = [s \in Sessions |-> NoTB]
    /\ pc = [s \in Sessions |-> "new"]
    /\ loc = [s \in Sessions |-> NoCall]
    /\ prev = [s \in Sessions |-> NoCall]
    /\ hue = TRUE
    /\ given = [s \in Sessions |-> <<>>]
    /\ arg = NoArg
    /\ ret = NoRet

-----------------------------------------------------------------------------
(* New and Snap *)

\* option lists with a filter that does not compile: before the formatter is
\* set, and among filters that compile
BadOptionLists ==
    UNION {{<<Filter(BadParen), WithFormatter(f)>>,
            <<WithFormatter(f), Filter(BadParen), Filter(BtoA)>>,
            <<WithFormatter(f), Filter(BtoA), Filter(BadParen)>>} : f \in Formatters}

\* option lists that name no formatter, with the description before and
\* after another option, and one that names the customFormatter
FormatterOptionLists ==
    {<<>>,
     <<Description(About), Filter(BtoA)>>,
     <<Filter(BtoA), Description(About)>>,
     <<Description(About), WithFormatter(CustomFormatter)>>}

\* the option lists a test passes to New
OptionLists ==
    {<<Update(u), Clean(c), WithFormatter(f)>> \o [i \in 1..Len(fl) |-> Filter(fl[i])] :
        u \in BOOLEAN, c \in BOOLEAN, f \in Formatters, fl \in FilterLists}
    \cup BadOptionLists
    \cup FormatterOptionLists

\* where a call stands after tb.Fatalf and a return: a testing.T has left
\* the test's goroutine, a TB that only records hands control back
AfterFatal(t) == IF t.stops THEN "exited" ELSE "idle"

\* snapshot.New(tb, options...)
New(s, name, stops, options) ==
    /\ pc[s] = "new"
    /\ UNCHANGED <<resolving, hue>>
    /\ given' = [given EXCEPT ![s] = options]
    /\ runner' = [runner EXCEPT ![s] = NewRunner(options)]
    /\ IF ApplyOptions(ZeroRunner, options).err
       THEN /\ tb' = [tb EXCEPT ![s] = Fatalf(FreshTB(name, stops), <<"snapshot.New()">>)]
            /\ pc' = [pc EXCEPT ![s] = AfterFatal(FreshTB(name, stops))]
       ELSE /\ tb' = [tb EXCEPT ![s] = FreshTB(name, stops)]
            /\ pc' = [pc EXCEPT ![s] = "idle"]
    /\ loc' = [loc EXCEPT ![s] = NoCall]
    /\ prev' = [prev EXCEPT ![s] = NoCall]
    /\ UNCHANGED fs

\* Snap is entered: path and dir are computed, the clean flag is looked at
Snap(s, v) ==
    /\ pc[s] = "idle"
    /\ loc[s].n < MaxCalls
    /\ UNCHANGED <<resolving, given, hue>>
    /\ IF runner[s].formatter.kind = "nil"
       THEN \* r.formatter.Ext() on a nil Formatter: a run-time panic
            /\ pc' = [pc EXCEPT ![s] = "panicked"]
            /\ UNCHANGED <<loc, prev, tb>>
       ELSE /\ pc' = [pc EXCEPT ![s] = IF runner[s].clean THEN "clean" ELSE "stat"]
            /\ loc' = [loc EXCEPT ![s] = [NoCall EXCEPT !.value = v, !.fs0 = fs, !.n = loc[s].n + 1]]
            /\ prev' = [prev EXCEPT ![s] = loc[s]]
            /\ tb' = [tb EXCEPT ![s].log = <<>>]
    /\ UNCHANGED <<fs, runner>>

\* if r.clean { os.RemoveAll(dir) }
DoClean(s) ==
    /\ pc[s] = "clean"
    /\ UNCHANGED <<resolving, given, hue>>
    /\ \E fault \in BOOLEAN :
         IF fault
         THEN /\ tb' = [tb EXCEPT ![s] = Fatalf(tb[s], <<"failed to delete">>)]
              /\ loc' = [loc EXCEPT ![s].err = "clean", ![s].fault = fault,
                                    ![s].failed = TRUE,
                                    ![s].outcome = "Error"]
              /\ pc' = [pc EXCEPT ![s] = AfterFatal(tb[s])]
              /\ UNCHANGED fs
         ELSE /\ fs' = RemoveAll(fs, Dir(Path(s)))
              /\ pc' = [pc EXCEPT ![s] = "stat"]
              /\ UNCHANGED <<tb, loc>>
    /\ UNCHANGED <<runner, prev>>

\* fileExists(path): (false, nil), (true, nil) or an error
\* an existence check that does not look at info.IsDir()
fileExists_DirIsFile(fsys, p, fault) ==
    LET st == Stat(fsys, p)
    IN  IF fault \/ st = "error" THEN [exists |-> FALSE, err |-> TRUE]
        ELSE IF st = "notexist" THEN [exists |-> FALSE, err |-> FALSE]
        ELSE [exists |-> TRUE, err |-> FALSE]

fileExists(fsys, p, fault) ==
    LET st == Stat(fsys, p)
    IN  IF fault \/ st = "error" THEN [exists |-> FALSE, err |-> TRUE]
        ELSE IF st = "notexist" THEN [exists |-> FALSE, err |-> FALSE]
        ELSE IF st = "dir" THEN [exists |-> FALSE, err |-> TRUE]
        ELSE [exists |-> TRUE, err |-> FALSE]

\* exists, err := fileExists(path)
DoStat(s) ==
    /\ pc[s] = "stat"
    /\ UNCHANGED <<resolving, given, hue>>
    /\ \E fault \in BOOLEAN :
         LET res == fileExists(fs, Path(s), fault)
         IN  IF res.err
             THEN /\ tb' = [tb EXCEPT ![s] = Fatalf(tb[s], <<"Snap: could not determine existence">>)]
                  /\ loc' = [loc EXCEPT ![s].err = "stat", ![s].fault = fault,
                                    ![s].failed = TRUE,
                                        ![s].outcome = "Error"]
                  /\ pc' = [pc EXCEPT ![s] = AfterFatal(tb[s])]
             ELSE /\ loc' = [loc EXCEPT ![s].exists = res.exists]
                  /\ pc' = [pc EXCEPT ![s] = "format"]
                  /\ UNCHANGED tb
    /\ UNCHANGED <<fs, runner, prev>>

\* a branch that always saves
Branch_AlwaysWrite(r, exists) == "mkdir"

\* a branch that forgets the update flag
Branch_IgnoreUpdate(r, exists) == IF ~exists THEN "mkdir" ELSE "read"

\* the branch Snap takes once the fresh bytes are there
Branch(r, exists) == IF ~exists \/ r.update THEN "mkdir" ELSE "read"

\* content, err := r.formatter.Format(value), then the filters; the error is
\* reported with Fatalf and the function goes on
DoFormat(s) ==
    /\ pc[s] = "format"
    /\ UNCHANGED <<resolving, given, hue>>
    /\ LET res == FormatWith(runner[s].formatter, loc[s].value)
           content == ApplyFilters(runner[s].filters, res.bytes)
       IN  IF res.err
           THEN /\ tb' = [tb EXCEPT ![s] = Fatalf(tb[s], <<"Snap: format">>)]
                /\ IF tb[s].stops
                   THEN /\ loc' = [loc EXCEPT ![s].err = "format", ![s].failed = TRUE,
                                              ![s].outcome = "Error"]
                        /\ pc' = [pc EXCEPT ![s] = "exited"]
                   ELSE /\ loc' = [loc EXCEPT ![s].err = "format", ![s].failed = TRUE,
                                              ![s].content = content]
                        /\ pc' = [pc EXCEPT ![s] = Branch(runner[s], loc[s].exists)]
           ELSE /\ loc' = [loc EXCEPT ![s].content = content]
                /\ pc' = [pc EXCEPT ![s] = Branch(runner[s], loc[s].exists)]
                /\ UNCHANGED tb
    /\ UNCHANGED <<fs, runner, prev>>

\* os.MkdirAll(dir, defaultDirPermissions)
DoMkdir(s) ==
    /\ pc[s] = "mkdir"
    /\ UNCHANGED <<resolving, given, hue>>
    /\ \E fault \in BOOLEAN :
         IF fault \/ MkdirAllFails(fs, Dir(Path(s)))
         THEN /\ tb' = [tb EXCEPT ![s] = Fatalf(tb[s], <<"Snap: could not create snapshot dir">>)]
              /\ loc' = [loc EXCEPT ![s].err = "mkdir", ![s].fault = fault,
                                    ![s].failed = TRUE,
                                    ![s].outcome = "Error"]
              /\ pc' = [pc EXCEPT ![s] = AfterFatal(tb[s])]
              /\ UNCHANGED fs
         ELSE /\ fs' = MkdirAll(fs, Dir(Path(s)))
              /\ pc' = [pc EXCEPT ![s] = "write"]
              /\ UNCHANGED <<tb, loc>>
    /\ UNCHANGED <<runner, prev>>

\* the update notice, then os.WriteFile(path, content, defaultFilePermissions)
DoWrite(s) ==
    /\ pc[s] = "write"
    /\ UNCHANGED <<resolving, given, hue>>
    /\ \E fault \in BOOLEAN :
         LET noted == IF runner[s].update
                      THEN Logf(tb[s], <<"Snap: updating snapshot">> \o <<Path(s)>>)
                      ELSE tb[s]
         IN  IF fault \/ WriteFileFails(fs, Path(s))
             THEN /\ tb' = [tb EXCEPT ![s] = Fatalf(noted, <<"Snap: could not write snapshot">>)]
                  /\ loc' = [loc EXCEPT ![s].err = "write", ![s].fault = fault,
                                    ![s].failed = TRUE,
                                        ![s].outcome = "Error"]
                  /\ pc' = [pc EXCEPT ![s] = AfterFatal(tb[s])]
                  /\ UNCHANGED fs
             ELSE /\ fs' = WriteFile(fs, Path(s), loc[s].content)
                  /\ tb' = [tb EXCEPT ![s] = noted]
                  /\ loc' = [loc EXCEPT ![s].outcome =
                                IF loc[s].exists THEN "Updated" ELSE "Created"]
                  /\ pc' = [pc EXCEPT ![s] = "idle"]
    /\ UNCHANGED <<runner, prev>>

\* a comparison of the stored bytes as they are
Compare_NoNormalise(stored, content) == Diff("old", stored, "new", content)

\* what was read with CRLF made LF, then diff.Diff of it against the fresh
\* bytes
Compare(stored, content) == Diff("old", ReplaceCRLF(stored), "new", content)

\* os.ReadFile(path), the comparison, and the failure that carries the
\* rendered diff
DoRead(s) ==
    /\ pc[s] = "read"
    /\ UNCHANGED <<resolving, given, hue>>
    /\ \E fault \in BOOLEAN :
         IF fault \/ ReadFileFails(fs, Path(s))
         THEN /\ tb' = [tb EXCEPT ![s] = Fatalf(tb[s], <<"Snap: could not read previous snapshot">>)]
              /\ loc' = [loc EXCEPT ![s].err = "read", ![s].fault = fault,
                                    ![s].failed = TRUE,
                                    ![s].outcome = "Error"]
              /\ pc' = [pc EXCEPT ![s] = AfterFatal(tb[s])]
         ELSE LET diff == Compare(ReadFile(fs, Path(s)), loc[s].content)
              IN  IF diff # Nil
                  THEN /\ tb' = [tb EXCEPT ![s] =
                                   Fatalf(tb[s], <<"Mismatch", LF>>
                                                 \o prettyDiff(diff, runner[s].noColor))]
                       /\ loc' = [loc EXCEPT ![s].failed = TRUE,
                                             ![s].outcome = "Mismatched"]
                       /\ pc' = [pc EXCEPT ![s] = AfterFatal(tb[s])]
                  ELSE /\ loc' = [loc EXCEPT ![s].outcome = "Matched"]
                       /\ pc' = [pc EXCEPT ![s] = "idle"]
                       /\ UNCHANGED tb
    /\ UNCHANGED <<fs, runner, prev>>

\* one step of a Snap call in flight
Step(s) ==
    \/ DoClean(s)
    \/ DoStat(s)
    \/ DoFormat(s)
    \/ DoMkdir(s)
    \/ DoWrite(s)
    \/ DoRead(s)

\* tests run one after the other: a test builds its Runner and calls Snap,
\* each call running to its end before anything else happens
Next ==
    \/ \E name \in Names, stops \in BOOLEAN, options \in OptionLists :
          New(1, name, stops, options)
    \/ \E v \in Values : Snap(1, v)
    \/ Step(1)

Spec == Init /\ [][Next]_vars

\* a test started beside the others: the host gives it a name of its own
NewParallel(s, name, stops, options) ==
    /\ \A t \in Sessions \ {s} : pc[t] # "new" => tb[t].name # name
    /\ New(s, name, stops, options)

\* the one Snap call of a test
SnapOnce(s, v) ==
    /\ loc[s].value = "none"
    /\ Snap(s, v)

\* the configurations and values of the tests run in parallel
ParOptionLists ==
    {<<Update(u), Clean(c), WithFormatter(f)>> :
        u \in BOOLEAN, c \in BOOLEAN, f \in Formatters}

ParValues == {"v1", "v2"}

\* the subtest TestA/x calls Snap once: with a value that matches, one that
\* does not, or one that does not serialise
OnceValues == {"v1", "v2", "v4"}

NextOnce ==
    \/ \E stops \in BOOLEAN, options \in ParOptionLists :
          New(1, <<"TestA", Slash, "x">>, stops, options)
    \/ \E v \in OnceValues : SnapOnce(1, v)
    \/ Step(1)

\* a Snap call is one function call on the test's goroutine: once entered it
\* runs on, no step waiting for anything but the file system's answer
SpecLive == Init /\ [][NextOnce]_vars /\ WF_vars(Step(1))

\* two tests run in parallel (t.Parallel(), so each host is a *testing.T),
\* each with a Runner of its own; their file operations interleave
NextPar ==
    \/ \E s \in Sessions, name \in Names, options \in ParOptionLists :
          NewParallel(s, name, TRUE, options)
    \/ \E s \in Sessions, v \in ParValues : SnapOnce(s, v)
    \/ \E s \in Sessions : Step(s)

SpecPar == Init /\ [][NextPar]_vars

\* the contents a test gives its artifact by hand
Contents == {<<"a", LF>>, <<"b", LF>>}

\* makeSnapshot(t, content), between two Snap calls of the test
makeSnapshot(s, content) ==
    /\ pc[s] = "idle"
    /\ loc[s].value # "none"
    /\ loc[s].n < MaxCalls
    /\ ~MkdirAllFails(fs, Dir(Path(s)))
    /\ ~WriteFileFails(MkdirAll(fs, Dir(Path(s))), Path(s))
    /\ fs' = WriteFile(MkdirAll(fs, Dir(Path(s))), Path(s), content)
    /\ UNCHANGED <<runner, tb, pc, loc, prev, given, hue, resolving>>

\* deleteSnapshot(t), between two Snap calls of the test
deleteSnapshot(s) ==
    /\ pc[s] = "idle"
    /\ loc[s].value # "none"
    /\ loc[s].n < MaxCalls
    /\ fs' = RemoveAll(fs, Path(s))
    /\ UNCHANGED <<runner, tb, pc, loc, prev, given, hue, resolving>>

\* the configurations of that test: the flags, or a filter
EditOptionLists ==
    ParOptionLists \cup {<<WithFormatter(f), Filter(BtoA)>> : f \in Formatters}

\* a test that calls Snap, rewrites or deletes its artifact, and calls Snap
\* again
NextEdit ==
    \/ \E stops \in BOOLEAN, options \in EditOptionLists :
          New(1, <<"TestA">>, stops, options)
    \/ \E v \in OnceValues : Snap(1, v)
    \/ Step(1)
    \/ \E content \in Contents : makeSnapshot(1, content)
    \/ deleteSnapshot(1)

SpecEdit == Init /\ [][NextEdit]_vars

-----------------------------------------------------------------------------
(* The SnapShotter, whose Color option sets hue's process-wide switch *)

\* the option lists of the tests that care about colour
ColorOptionLists == {<<>>, <<Color(TRUE)>>, <<Color(FALSE)>>}

\* hue.Enabled(v), called by Color(v) only when v is false
RECURSIVE HueAfter(_, _)
HueAfter(enabled, options) ==
    IF Len(options) = 0 THEN enabled
    ELSE HueAfter(IF Head(options).opt = "color" /\ ~Head(options).flag
                  THEN FALSE ELSE enabled,
                  Tail(options))

\* the SnapShotter's prettyDiff: it takes no flag, and a hue style's Sprint
\* leaves the text as it is when hue is switched off
prettyDiffHue(diff, enabled) ==
    LET lines == SplitLines(diff, <<>>)
    IN  JoinLines([i \in 1..Len(lines) |->
                      IF enabled THEN ColourLine(lines[i]) ELSE lines[i]])

\* SnapShotter.Path()
ShotterPath(s) == PathOf(tb[s].name, TxtExt)

\* the string a test hands to Snap as value v: a primitive, printed by %v
StringValue(v) ==
    [snap |-> Absent, json |-> Absent, text |-> Absent, str |-> Absent,
     primitive |-> TRUE, v |-> RawFormatter.out[v].bytes,
     gov |-> RawFormatter.out[v].bytes]

\* the snapshots of the two subtests as an earlier run left them
ShotterFS ==
    Populate(Populate(EmptyFS, <<"TestA", Slash, "x">>, TxtExt, <<"a", LF>>),
             <<"TestA", Slash, "y">>, TxtExt, <<"a", LF>>)

InitColor ==
    /\ fs \in {EmptyFS, ShotterFS}
    /\ runner = [s \in Sessions |-> ZeroRunner]
    /\ tb = [s \in Sessions |-> NoTB]
    /\ pc = [s \in Sessions |-> "new"]
    /\ loc = [s \in Sessions |-> NoCall]
    /\ prev = [s \in Sessions |-> NoCall]
    /\ given = [s \in Sessions |-> <<>>]
    /\ hue = TRUE
    /\ arg = NoArg
    /\ ret = NoRet

\* snapshot.New(t, options...) of the SnapShotter, in a subtest of its own
NewShotter(s, name, options) ==
    /\ pc[s] = "new"
    /\ \A t \in Sessions \ {s} : pc[t] # "new" => tb[t].name # name
    /\ given' = [given EXCEPT ![s] = options]
    /\ hue' = HueAfter(hue, options)
    /\ tb' = [tb EXCEPT ![s] = FreshTB(name, TRUE)]
    /\ pc' = [pc EXCEPT ![s] = "idle"]
    /\ UNCHANGED <<fs, runner, loc, prev, resolving>>

\* SnapShotter.Snap(value) with update and clean unset and a *testing.T: the
\* artifact is created, or read and compared, a mismatch failing the test
\* with the rendered diff
ShotterSnap(s, v) ==
    /\ pc[s] = "idle"
    /\ loc[s].n < MaxCalls
    /\ LET path == ShotterPath(s)
           res == fileExists(fs, path, FALSE)
           content == do(tb[s], <<>>, StringValue(v)).content
           call == [NoCall EXCEPT !.value = v, !.fs0 = fs, !.n = loc[s].n + 1,
                                  !.exists = res.exists, !.content = content]
       IN  IF res.err
           THEN /\ tb' = [tb EXCEPT ![s] = Fatalf(tb[s], <<"Snap: could not determine existence">>)]
                /\ loc' = [loc EXCEPT ![s] = [call EXCEPT !.err = "stat", !.failed = TRUE,
                                                         !.outcome = "Error"]]
                /\ pc' = [pc EXCEPT ![s] = "exited"]
                /\ UNCHANGED fs
           ELSE IF ~res.exists
           THEN IF MkdirAllFails(fs, Dir(path))
                THEN /\ tb' = [tb EXCEPT ![s] = Fatalf(tb[s], <<"Snap: could not create snapshot dir">>)]
                     /\ loc' = [loc EXCEPT ![s] = [call EXCEPT !.err = "mkdir", !.failed = TRUE,
                                                              !.outcome = "Error"]]
                     /\ pc' = [pc EXCEPT ![s] = "exited"]
                     /\ UNCHANGED fs
                ELSE /\ fs' = WriteFile(MkdirAll(fs, Dir(path)), path, content)
                     /\ loc' = [loc EXCEPT ![s] = [call EXCEPT !.outcome = "Created"]]
                     /\ UNCHANGED <<tb, pc>>
           ELSE LET diff == Diff("previous", ReplaceCRLF(ReadFile(fs, path)),
                                 "current", content)
                IN  IF diff # Nil
                    THEN /\ tb' = [tb EXCEPT ![s] =
                                     Fatalf(tb[s], <<"Mismatch", LF>>
                                                   \o prettyDiffHue(diff, hue))]
                         /\ loc' = [loc EXCEPT ![s] = [call EXCEPT !.failed = TRUE,
                                                                  !.outcome = "Mismatched"]]
                         /\ pc' = [pc EXCEPT ![s] = "exited"]
                         /\ UNCHANGED fs
                    ELSE /\ loc' = [loc EXCEPT ![s] = [call EXCEPT !.outcome = "Matched"]]
                         /\ UNCHANGED <<fs, tb, pc>>
    /\ prev' = [prev EXCEPT ![s] = loc[s]]
    /\ UNCHANGED <<runner, given, hue, resolving>>

\* two subtests, each with a SnapShotter of its own, in any order
NextColor ==
    \/ \E s \in Sessions, name \in {<<"TestA", Slash, "x">>, <<"TestA", Slash, "y">>},
          options \in ColorOptionLists :
          NewShotter(s, name, options)
    \/ \E s \in Sessions, v \in ParValues : ShotterSnap(s, v)

SpecColor == InitColor /\ [][NextColor]_vars

\* the resolver on its own: every value and filter list, one call after another
InitResolve ==
    /\ fs = EmptyFS
    /\ runner = [s \in Sessions |-> ZeroRunner]
    /\ tb = [s \in Sessions |-> NoTB]
    /\ pc = [s \in Sessions |-> "new"]
    /\ loc = [s \in Sessions |-> NoCall]
    /\ prev = [s \in Sessions |-> NoCall]
    /\ hue = TRUE
    /\ given = [s \in Sessions |-> <<>>]
    /\ \E v \in DoValues, fl \in FilterLists :
          arg = [called |-> TRUE, value |-> v, filters |-> fl]
    /\ ret = NoRet

NextResolve == Do \/ Again

SpecResolve == InitResolve /\ [][NextResolve]_vars

-----------------------------------------------------------------------------
(* The filter pipeline on its own *)

\* the longest input and the longest list of filters looked at
MaxBytes == 4
MaxFilters == 2

SeqsUpTo(S, n) == UNION {[1..k -> S] : k \in 0..n}

AtoB == [pattern |-> <<"a">>, replacement |-> <<"b">>]
DropAB == [pattern |-> <<"a", "b">>, replacement |-> <<>>]

\* the filters a test registers, and the serialised bytes they meet
FilterPool == {AtoB, BtoA, DropAB}
PipelineInputs ==
    [called : {TRUE}, bytes : SeqsUpTo({"a", "b"}, MaxBytes),
     filters : SeqsUpTo(FilterPool, MaxFilters)]

\* no session is under way
Unstarted ==
    /\ fs = EmptyFS
    /\ runner = [s \in Sessions |-> ZeroRunner]
    /\ tb = [s \in Sessions |-> NoTB]
    /\ pc = [s \in Sessions |-> "new"]
    /\ loc = [s \in Sessions |-> NoCall]
    /\ prev = [s \in Sessions |-> NoCall]
    /\ hue = TRUE
    /\ given = [s \in Sessions |-> <<>>]

\* the loop of Snap over the filters, run on the bytes and once more on its
\* own output
Pipeline ==
    /\ arg.called
    /\ ~ret.returned
    /\ ret' = [returned |-> TRUE,
               once |-> ApplyFilters(arg.filters, arg.bytes),
               twice |-> ApplyFilters(arg.filters, ApplyFilters(arg.filters, arg.bytes))]
    /\ UNCHANGED arg
    /\ UNCHANGED running

\* other bytes for the same filters, or other filters for the same bytes
NextInput ==
    /\ ret.returned
    /\ arg' \in {i \in PipelineInputs : i.bytes = arg.bytes \/ i.filters = arg.filters}
    /\ ret' = NoRet
    /\ UNCHANGED running

InitFilter == Unstarted /\ arg \in PipelineInputs /\ ret = NoRet

NextFilter == Pipeline \/ NextInput

SpecFilter == InitFilter /\ [][NextFilter]_vars

-----------------------------------------------------------------------------
(* Path on its own *)

\* the most subtest names below a top-level test
MaxDepth == 2

\* the names of top-level tests, and the names a test hands to t.Run: a plain
\* one, "..", "." and the empty text between two separators
Tops == {<<"TestA">>, <<"TestB">>}
SubtestNames == {<<"x">>, <<"..">>, <<".">>, <<>>}

\* tb.Name() of a subtest: the names from the top-level test down, joined
\* by '/'
RECURSIVE NameOf(_)
NameOf(segs) ==
    IF Len(segs) = 1 THEN segs[1]
    ELSE NameOf(SubSeq(segs, 1, Len(segs) - 1)) \o <<Slash>> \o segs[Len(segs)]

IdentitySegments == {<<top>> \o rest : top \in Tops, rest \in SeqsUpTo(SubtestNames, MaxDepth)}

Identities == {NameOf(segs) : segs \in IdentitySegments}

\* what Ext() of a formatter returns
Extensions == {SnapExt, <<".snap", ".txt">>}

PathInputs == [called : {TRUE}, name : Identities, ext : Extensions]

\* Runner.Path() for the test identity and the extension
DerivePath ==
    /\ arg.called
    /\ ~ret.returned
    /\ ret' = [returned |-> TRUE, path |-> PathOf(arg.name, arg.ext)]
    /\ UNCHANGED arg
    /\ UNCHANGED running

\* another test, another formatter
NextIdentity ==
    /\ ret.returned
    /\ arg' \in PathInputs
    /\ ret' = NoRet
    /\ UNCHANGED running

InitPath == Unstarted /\ arg \in PathInputs /\ ret = NoRet

NextPath == DerivePath \/ NextIdentity

SpecPath == InitPath /\ [][NextPath]_vars

-----------------------------------------------------------------------------
(* prettyDiff on its own *)

\* the longest diff text looked at
MaxDiff == 5

\* the characters of a diff text: the markers, a blank, a letter, a line feed
DiffChars == {"-", "+", "@", " ", "a", LF}

RenderInputs ==
    [called : {TRUE}, diff : SeqsUpTo(DiffChars, MaxDiff), noColor : BOOLEAN]

\* prettyDiff(diff, noColor)
Render ==
    /\ arg.called
    /\ ~ret.returned
    /\ ret' = [returned |-> TRUE, text |-> prettyDiff(arg.diff, arg.noColor)]
    /\ UNCHANGED arg
    /\ UNCHANGED running

\* the same text for a session with the other colour setting
NextRender ==
    /\ ret.returned
    /\ arg' = [arg EXCEPT !.noColor = ~arg.noColor]
    /\ ret' = NoRet
    /\ UNCHANGED running

InitRender == Unstarted /\ arg \in RenderInputs /\ ret = NoRet

NextPretty == Render \/ NextRender

SpecRender == InitRender /\ [][NextPretty]_vars

-----------------------------------------------------------------------------
(* Properties of Snap *)

\* a Snap call of session s has run to its end
Ended(s) == pc[s] \in {"idle", "exited"} /\ loc[s].value # "none"

\* the formatter returns an error for the value of the call
FormatFails(s) == FormatWith(runner[s].formatter, loc[s].value).err

\* the fresh filtered bytes of the value of the call
Fresh(s) ==
    ApplyFilters(runner[s].filters, FormatWith(runner[s].formatter, loc[s].value).bytes)

\* the artifact a call c of session s found at the derived path
Found(s, c) == c.fs0[Path(s)]

\* the file system the existence check of call c of session s looks at
AtStat(s, c) ==
    IF runner[s].clean
    THEN [q \in AllPaths |->
            IF Len(q) >= Len(Path(s)) - 1
               /\ \A i \in 1..(Len(Path(s)) - 1) : q[i] = Path(s)[i]
            THEN NoEnt ELSE c.fs0[q]]
    ELSE c.fs0

\* what is at the derived path then: "file", "dir", "notexist", or "error"
\* when an element on the way to it is a regular file
Looked(s, c) ==
    IF \E n \in 1..(Len(Path(s)) - 1) : AtStat(s, c)[SubSeq(Path(s), 1, n)].kind = "file"
    THEN "error"
    ELSE IF AtStat(s, c)[Path(s)].kind = "none" THEN "notexist"
    ELSE AtStat(s, c)[Path(s)].kind

\* a call that compares: no update, no clean, the value serialises and the
\* environment fails no file operation
Comparing(s, c) ==
    /\ ~runner[s].update
    /\ ~runner[s].clean
    /\ ~FormatFails(s)
    /\ ~c.fault

Passed(c, outcome) == c.outcome = outcome /\ ~c.failed

\* C1: for a test identity with no artifact at its derived path, the first
\* Snap call (no update, no clean) ends in Created without failing the test,
\* and a second Snap call with the same value and configuration ends in
\* Matched without failing the test.
C1_CreateThenMatch ==
    \A s \in Sessions :
        (Ended(s) /\ Comparing(s, loc[s]))
        => /\ (Looked(s, loc[s]) = "notexist" => Passed(loc[s], "Created"))
           /\ (/\ prev[s].value = loc[s].value
               /\ Looked(s, prev[s]) = "notexist"
               /\ Passed(prev[s], "Created")
               => Passed(loc[s], "Matched"))

\* the stored bytes b compare equal to the fresh bytes of the call
Matches(s, node) == node.kind = "file" /\ ReplaceCRLF(node.data) = Fresh(s)

\* C2: when an artifact exists and matches the value, Snap called twice in
\* succession with the unchanged value (no update, no clean) ends in Matched
\* both times, and the stored bytes after each call are the bytes before the
\* first call.
C2_CompareIdempotent ==
    \A s \in Sessions :
        (Ended(s) /\ Comparing(s, loc[s]) /\ Matches(s, Found(s, loc[s])))
        => /\ Passed(loc[s], "Matched")
           /\ fs[Path(s)] = Found(s, loc[s])
           /\ (prev[s].value = loc[s].value /\ ~prev[s].fault
                  /\ Matches(s, Found(s, prev[s]))
               => /\ Passed(prev[s], "Matched")
                  /\ Found(s, loc[s]) = Found(s, prev[s]))

C2_Witness ==
    \E s \in Sessions :
        /\ Ended(s) /\ Comparing(s, loc[s])
        /\ prev[s].value = loc[s].value
        /\ Matches(s, Found(s, prev[s]))
        /\ Passed(prev[s], "Matched") /\ Passed(loc[s], "Matched")
        /\ fs[Path(s)] = Found(s, prev[s])

\* C3: with update set and an artifact present at the existence check,
\* whatever its content, Snap passes with outcome Updated, reports no
\* mismatch, and afterwards the artifact holds the fresh filtered bytes.
C3_UpdateOverwrites ==
    \A s \in Sessions :
        (Ended(s) /\ runner[s].update /\ loc[s].exists
            /\ ~FormatFails(s) /\ ~loc[s].fault)
        => /\ Passed(loc[s], "Updated")
           /\ \A i \in 1..Len(tb[s].log) : tb[s].log[i].kind # "fatal"
           /\ fs[Path(s)] = FileNode(Fresh(s))

C3_Witness ==
    \E s \in Sessions :
        /\ Ended(s) /\ runner[s].update /\ loc[s].exists
        /\ Found(s, loc[s]).kind = "file"
        /\ ~Matches(s, Found(s, loc[s]))
        /\ Passed(loc[s], "Updated")
        /\ fs[Path(s)] = FileNode(Fresh(s))

\* b occurs in a as a run of consecutive bytes
Contains(a, b) ==
    \E i \in 0..(Len(a) - Len(b)) : SubSeq(a, i + 1, i + Len(b)) = b

\* the bytes of b up to its first line feed
FirstLine(b) == SplitLines(b, <<>>)[1]

\* the message of the last tb.Fatalf
LastFatal(s) == tb[s].log[Len(tb[s].log)]

\* C4: when an artifact exists (no update, no clean) and its bytes, CRLF made
\* LF, differ from the fresh filtered bytes, Snap ends in Mismatched and fails
\* the test with a message that holds the diff of stored ("old") against
\* fresh ("new"); when they are equal Snap ends in Matched and does not fail.
C4_MismatchDetected ==
    \A s \in Sessions :
        (Ended(s) /\ Comparing(s, loc[s]) /\ Found(s, loc[s]).kind = "file")
        => IF Matches(s, Found(s, loc[s]))
           THEN Passed(loc[s], "Matched")
           ELSE /\ loc[s].outcome = "Mismatched"
                /\ loc[s].failed /\ tb[s].failed
                /\ LastFatal(s).kind = "fatal"
                /\ Contains(LastFatal(s).msg, <<"Mismatch">>)
                /\ Contains(LastFatal(s).msg,
                            <<"-", " ">> \o FirstLine(ReplaceCRLF(Found(s, loc[s]).data)))
                /\ Contains(LastFatal(s).msg, <<"+", " ">> \o FirstLine(Fresh(s)))
                /\ Contains(LastFatal(s).msg, <<"old">>)
                /\ Contains(LastFatal(s).msg, <<"new">>)

\* a stored artifact with CRLF line endings differs from the fresh bytes
C4_Witness ==
    \E s \in Sessions :
        /\ Ended(s) /\ Comparing(s, loc[s])
        /\ Found(s, loc[s]).kind = "file"
        /\ HasCRLF(Found(s, loc[s]).data)
        /\ ~Matches(s, Found(s, loc[s]))
        /\ loc[s].outcome = "Mismatched" /\ tb[s].failed
        /\ fs[Path(s)] = Found(s, loc[s])

\* the number of '/'-separated segments of a test identity
Segments(name) == Cardinality({i \in 1..Len(name) : name[i] = Slash}) + 1

\* C5: when no artifact exists at the derived path, Snap creates every
\* missing parent directory (one level for each segment of the identity),
\* writes the filtered serialisation of the value as the artifact and passes
\* the test (Created) without comparing anything.
C5_FirstRunCreates ==
    \A s \in Sessions :
        (Ended(s) /\ ~FormatFails(s) /\ ~loc[s].fault
            /\ ~runner[s].clean /\ Looked(s, loc[s]) = "notexist")
        => /\ Passed(loc[s], "Created")
           /\ Len(Path(s)) = Segments(tb[s].name) + 2
           /\ \A n \in 1..(Len(Path(s)) - 1) : fs[SubSeq(Path(s), 1, n)] = DirNode
           /\ fs[Path(s)] = FileNode(Fresh(s))
           /\ \A i \in 1..Len(tb[s].log) : tb[s].log[i].kind # "fatal"

C5_Witness ==
    \E s \in Sessions :
        /\ Ended(s) /\ Passed(loc[s], "Created")
        /\ Segments(tb[s].name) = 2
        /\ \A p \in AllPaths : loc[s].fs0[p] = NoEnt
        /\ \A n \in 1..(Len(Path(s)) - 1) : fs[SubSeq(Path(s), 1, n)] = DirNode
        /\ fs[Path(s)] = FileNode(Fresh(s))
        /\ Fresh(s) # FormatWith(runner[s].formatter, loc[s].value).bytes

\* C7: when the formatter's Format returns an error, Snap fails the test
\* and neither creates nor modifies the artifact at the derived path (with
\* clean set, the purged artifact is not created again).
C7_FormatFailureFatal ==
    \A s \in Sessions :
        (Ended(s) /\ FormatFails(s) /\ loc[s].err = "format")
        => /\ tb[s].failed
           /\ fs[Path(s)] = IF runner[s].clean THEN NoEnt ELSE Found(s, loc[s])

\* C8: with clean set (the value serialises, no file operation fails), the
\* call never ends in Matched or Mismatched, does not fail whatever the
\* prior content, and afterwards the artifact at Path() holds the fresh
\* filtered bytes; a missing directory to clean is no error.
C8_CleanRunsFirst ==
    \A s \in Sessions :
        (Ended(s) /\ runner[s].clean /\ ~FormatFails(s) /\ ~loc[s].fault)
        => /\ loc[s].outcome \notin {"Matched", "Mismatched"}
           /\ Passed(loc[s], "Created")
           /\ loc[s].err = "none"
           /\ ~loc[s].exists
           /\ fs[Path(s)] = FileNode(Fresh(s))

\* a prior artifact that would mismatch is purged and written afresh
C8_Witness ==
    \E s \in Sessions :
        /\ Ended(s) /\ runner[s].clean
        /\ Found(s, loc[s]).kind = "file"
        /\ ~Matches(s, Found(s, loc[s]))
        /\ Passed(loc[s], "Created")
        /\ fs[Path(s)] = FileNode(Fresh(s))

\* the artifacts of the test identities other than that of session s
OtherArtifacts(s) ==
    {PathOf(n, Ext(runner[s].formatter)) : n \in Names \ {tb[s].name}}

\* C9: a Snap call with clean set purges only artifacts of its own test
\* identity: the artifact of every other test identity (a sibling subtest,
\* another top-level test) is left unchanged by the call.
C9_CleanScopedToIdentity ==
    \A s \in Sessions :
        (Ended(s) /\ runner[s].clean)
        => \A q \in OtherArtifacts(s) : fs[q] = loc[s].fs0[q]

\* what a call of session s does when it runs alone from the artifact it found
AloneOutcome(s) ==
    IF Looked(s, loc[s]) \in {"dir", "error"} THEN "Error"
    ELSE IF Looked(s, loc[s]) = "notexist" THEN "Created"
    ELSE IF runner[s].update THEN "Updated"
    ELSE IF Matches(s, Found(s, loc[s])) THEN "Matched"
    ELSE "Mismatched"

AloneArtifact(s) ==
    IF AloneOutcome(s) \in {"Created", "Updated"}
    THEN FileNode(Fresh(s))
    ELSE AtStat(s, loc[s])[Path(s)]

\* C10: when two sessions of different test identities run Snap concurrently,
\* under every interleaving of their file operations each call's outcome and
\* resulting artifact are those of running it alone: neither session reads,
\* writes or deletes the other's artifact.
C10_ParallelIsolation ==
    \A s \in Sessions :
        (Ended(s) /\ ~FormatFails(s) /\ ~loc[s].fault)
        => /\ loc[s].outcome = AloneOutcome(s)
           /\ fs[Path(s)] = AloneArtifact(s)

\* an option of the list handed to New is a filter whose pattern does not compile
GivenBadFilter(s) ==
    \E i \in 1..Len(given[s]) :
        /\ given[s][i].opt = "filter"
        /\ \E j \in 1..Len(given[s][i].filter.pattern) :
              given[s][i].filter.pattern[j] = "("

\* C14: a filter whose pattern does not compile is rejected when the session
\* is constructed: New has failed the test before any Snap call runs, and no
\* filter with such a pattern is ever in the session's filter list.
C14_BadPatternRejected ==
    \A s \in Sessions :
        /\ \A i \in 1..Len(runner[s].filters) :
              \A j \in 1..Len(runner[s].filters[i].pattern) :
                  runner[s].filters[i].pattern[j] # "("
        /\ (pc[s] # "new" /\ GivenBadFilter(s))
           => /\ tb[s].failed
              /\ tb[s].stops => pc[s] = "exited" /\ loc[s].value = "none"
        /\ (pc[s] # "new" /\ ~GivenBadFilter(s) /\ loc[s].value = "none")
           => ~tb[s].failed

\* New has returned after the bad filter that followed a good one
C14_Witness ==
    \E s \in Sessions :
        /\ pc[s] # "new" /\ GivenBadFilter(s)
        /\ loc[s].value = "none"
        /\ tb[s].failed
        /\ tb[s].log[Len(tb[s].log)].kind = "fatal"
        /\ Len(runner[s].filters) = 1

\* the options of one kind handed to New, by their place in the list
Given(s, kind) == {i \in 1..Len(given[s]) : given[s][i].opt = kind}

Last(S) == CHOOSE i \in S : \A j \in S : j <= i

\* the filters handed to New, in the order of the list
RECURSIVE GivenFilters(_)
GivenFilters(options) ==
    IF Len(options) = 0 THEN <<>>
    ELSE LET rest == GivenFilters(SubSeq(options, 1, Len(options) - 1))
             o == options[Len(options)]
         IN  IF o.opt = "filter" THEN Append(rest, o.filter) ELSE rest

\* the description handed to New, if any
GivenDescription(s) ==
    IF Given(s, "description") = {} THEN <<>>
    ELSE given[s][Last(Given(s, "description"))].text

\* the document of the insta formatter for a description and a value
InstaDocument(description, v) ==
    <<"source", LF>>
    \o (IF description = <<>> THEN <<>> ELSE <<"description">> \o description \o <<LF>>)
    \o <<"expression", LF, "---", LF, v, LF>>

\* the call of session s has written the artifact
Wrote(s) == Ended(s) /\ loc[s].outcome \in {"Created", "Updated"}

\* C21: when a formatter option is given (and no option fails), the artifact
\* lies at the path with that formatter's extension and holds that
\* formatter's Format(value) passed through the filters, not the default
\* document; when none is given, the artifact is the insta document carrying
\* the configured description, wherever the description stands in the list.
C21_FormatterOverride ==
    \A s \in Sessions :
        (pc[s] # "new" /\ ~GivenBadFilter(s))
        => IF Given(s, "formatter") # {}
           THEN LET f == given[s][Last(Given(s, "formatter"))].formatter
                    p == PathOf(tb[s].name, f.ext)
                IN  /\ runner[s].formatter = f
                    /\ (Wrote(s) /\ ~f.out[loc[s].value].err)
                       => fs[p] = FileNode(ApplyFilters(GivenFilters(given[s]),
                                                        f.out[loc[s].value].bytes))
           ELSE LET p == PathOf(tb[s].name, InstaExt)
                IN  /\ runner[s].formatter.kind = "insta"
                    /\ runner[s].formatter.description = GivenDescription(s)
                    /\ Wrote(s)
                       => fs[p] = FileNode(ApplyFilters(GivenFilters(given[s]),
                                     InstaDocument(GivenDescription(s), loc[s].value)))

\* the description that follows another option is in the stored document
C21_Witness ==
    \E s \in Sessions :
        /\ Wrote(s)
        /\ Given(s, "formatter") = {}
        /\ Given(s, "description") = {2}
        /\ Contains(fs[PathOf(tb[s].name, InstaExt)].data, <<"description">> \o About)

\* C17: the existence check answers false without error when nothing is at
\* the path and true when a regular file is; a directory at the path and
\* every other stat failure are errors, on which Snap fails the test and
\* writes nothing.
C17_ExistenceCheck ==
    \A s \in Sessions :
        (Ended(s) /\ loc[s].err # "clean")
        => LET st == Looked(s, loc[s])
           IN  /\ st \in {"dir", "error"} => loc[s].err = "stat"
               /\ loc[s].err = "stat"
                  => /\ st \in {"dir", "error"} \/ loc[s].fault
                     /\ loc[s].failed /\ tb[s].failed
                     /\ LastFatal(s).kind = "fatal"
                     /\ fs = AtStat(s, loc[s])
               /\ loc[s].err # "stat"
                  => /\ st \in {"file", "notexist"}
                     /\ loc[s].exists = (st = "file")

\* a directory stands where the artifact should be
C17_Witness ==
    \E s \in Sessions :
        /\ Ended(s) /\ ~loc[s].fault
        /\ Looked(s, loc[s]) = "dir"
        /\ loc[s].err = "stat" /\ tb[s].failed
        /\ fs = loc[s].fs0

\* the serialisation of value v in session s, and what the filters make of it
Raw(s, v) == FormatWith(runner[s].formatter, v)

Filtered(s, v) == ApplyFilters(runner[s].filters, Raw(s, v).bytes)

\* C12: every artifact that Snap writes (Created or Updated) holds the
\* filtered bytes, and two values whose serialisations differ only in what
\* the filters rewrite to the same text give Created on the first Snap (no
\* artifact, no update, no clean) and Matched on the second.
C12_FiltersBeforeStoreAndCompare ==
    \A s \in Sessions :
        (Ended(s) /\ ~FormatFails(s) /\ ~loc[s].fault)
        => /\ (Passed(loc[s], "Created") \/ Passed(loc[s], "Updated"))
              => fs[Path(s)] = FileNode(Fresh(s))
           /\ (/\ Comparing(s, loc[s])
               /\ prev[s].value # "none" /\ ~prev[s].fault
               /\ ~Raw(s, prev[s].value).err
               /\ Raw(s, prev[s].value).bytes # Raw(s, loc[s].value).bytes
               /\ Filtered(s, prev[s].value) = Fresh(s)
               /\ Looked(s, prev[s]) = "notexist")
              => Passed(prev[s], "Created") /\ Passed(loc[s], "Matched")

\* stored is fresh with some of its line feeds written as CR LF
RECURSIVE SameButCRLF(_, _)
SameButCRLF(stored, fresh) ==
    IF Len(fresh) = 0 THEN Len(stored) = 0
    ELSE \/ /\ Len(stored) > 0 /\ stored[1] = fresh[1]
            /\ SameButCRLF(Tail(stored), Tail(fresh))
         \/ /\ fresh[1] = LF
            /\ Len(stored) > 1 /\ stored[1] = CR /\ stored[2] = LF
            /\ SameButCRLF(Tail(Tail(stored)), Tail(fresh))

\* C18: a stored artifact that differs from the fresh filtered bytes only in
\* using CR LF where they use LF yields Matched (no update, no clean), since
\* every CR LF of the stored bytes is made LF before the comparison.
C18_CRLFNormalisedOnRead ==
    \A s \in Sessions :
        (/\ Ended(s) /\ Comparing(s, loc[s])
         /\ Looked(s, loc[s]) = "file"
         /\ Found(s, loc[s]).data # Fresh(s)
         /\ SameButCRLF(Found(s, loc[s]).data, Fresh(s)))
        => Passed(loc[s], "Matched")

\* C19: no artifact that Snap has written (Created or Updated) holds a CR LF.
C19_StoredLineEndings ==
    \A s \in Sessions :
        (Ended(s) /\ loc[s].outcome \in {"Created", "Updated"})
        => ~HasCRLF(fs[Path(s)].data)

\* the tb.Fatalf calls of the Snap call of session s
Fatals(s) == {i \in 1..Len(tb[s].log) : tb[s].log[i].kind = "fatal"}

\* the serialisation step of the call failed: the call came as far as Format
\* and Format returned an error
FormatFailed(s) == FormatFails(s) /\ loc[s].err \notin {"clean", "stat"}

\* a storage step of the call failed
StorageFailed(s) == loc[s].err \in {"clean", "stat", "mkdir", "write", "read"}

\* C20: Snap calls the fail primitive if and only if the outcome is
\* Mismatched or a serialisation or storage step (clean, stat, mkdir, write,
\* read) failed; each failure is reported once, no step being tried again;
\* and a call that ends in Created, Updated or Matched has not called fail.
C20_NoErrorSwallowed ==
    \A s \in Sessions :
        Ended(s)
        => /\ (Fatals(s) # {})
              <=> (loc[s].outcome = "Mismatched" \/ FormatFailed(s) \/ StorageFailed(s))
           /\ Cardinality(Fatals(s))
              = (IF loc[s].outcome = "Mismatched" THEN 1 ELSE 0)
                + (IF FormatFailed(s) THEN 1 ELSE 0)
                + (IF StorageFailed(s) THEN 1 ELSE 0)
           /\ loc[s].outcome \in {"Created", "Updated", "Matched"} => Fatals(s) = {}

\* a Snap call of session s is under way
InCall(s) == pc[s] \in {"clean", "stat", "format", "mkdir", "write", "read"}

\* the steps that may follow a step of Snap ("end" is the return)
After(step) ==
    CASE step = "clean"  -> {"stat", "end"}
      [] step = "stat"   -> {"format", "end"}
      [] step = "format" -> {"mkdir", "read", "end"}
      [] step = "mkdir"  -> {"write", "end"}
      [] step = "write"  -> {"end"}
      [] step = "read"   -> {"end"}

Place(p) == IF p \in {"idle", "exited"} THEN "end" ELSE p

\* how a call that has come to its end ended
Endings(s) ==
    {o \in {"Created", "Updated", "Matched", "Mismatched"} : loc[s].outcome = o}
    \cup (IF FormatFailed(s) \/ StorageFailed(s) THEN {"failure"} ELSE {})

\* C24: a Snap call takes the steps clean (only when clean is set),
\* existence check, serialise and filter, then either the write or the read
\* and comparison, each at most once and in that order, so that no step is
\* taken twice and the call is over after six steps at most; and it ends in
\* exactly one of Created, Updated, Matched, Mismatched or a reported
\* failure.
C24_LinearMachine ==
    /\ [][\A s \in Sessions :
            /\ (InCall(s) /\ pc'[s] # pc[s]) => Place(pc'[s]) \in After(pc[s])
            /\ (pc[s] = "idle" /\ InCall(s)')
               => pc'[s] = (IF runner[s].clean THEN "clean" ELSE "stat")]_vars
    /\ [](\A s \in Sessions :
            Ended(s) => /\ Cardinality(Endings(s)) = 1
                        /\ "failure" \in Endings(s) => Fatals(s) # {})

\* how a call c of session s must end, going by the file system it found
Due(s, c) ==
    IF Looked(s, c) = "notexist" THEN "Created"
    ELSE IF runner[s].update THEN "Updated"
    ELSE IF Matches(s, Found(s, c)) THEN "Matched"
    ELSE "Mismatched"

\* C25: a Snap call that follows another on the same session decides from
\* the file system as it is at that call: it ends as the artifact found then
\* demands, a mismatch shows the diff against the bytes found then, and a
\* removed artifact is created again from the fresh bytes, whatever the call
\* before found.
C25_NoCaching ==
    \A s \in Sessions :
        (/\ Ended(s) /\ prev[s].value # "none"
         /\ ~loc[s].fault /\ ~FormatFails(s)
         /\ Looked(s, loc[s]) \in {"notexist", "file"})
        => /\ loc[s].outcome = Due(s, loc[s])
           /\ loc[s].outcome \in {"Created", "Updated"}
              => loc[s].content = Fresh(s)
           /\ loc[s].outcome = "Mismatched"
              => /\ tb[s].log # <<>>
                 /\ tb[s].log[Len(tb[s].log)].msg
                    = <<"Mismatch", LF>>
                      \o prettyDiff(Compare(Found(s, loc[s]).data, Fresh(s)),
                                    runner[s].noColor)

\* the first call matched, the artifact was rewritten, and the second call
\* with the same value reports the mismatch
C25_Witness ==
    \E s \in Sessions :
        /\ Ended(s) /\ Comparing(s, loc[s])
        /\ prev[s].value = loc[s].value
        /\ Passed(prev[s], "Matched")
        /\ Found(s, loc[s]).kind = "file"
        /\ Found(s, loc[s]) # Found(s, prev[s])
        /\ loc[s].outcome = "Mismatched"

\* the places in the log of session s of the update notice for its path
Notices(s) ==
    {i \in 1..Len(tb[s].log) :
        tb[s].log[i] = [kind |-> "log",
                        msg |-> <<"Snap: updating snapshot">> \o <<Path(s)>>]}

\* C27: a Snap call that finds an artifact with update set never reads or
\* compares it; when it comes to the write it has logged one update notice
\* that names the artifact's path, before the write and so before any report
\* of the write's failure.
C27_UpdateNotice ==
    \A s \in Sessions :
        (runner[s].formatter.kind # "nil" /\ runner[s].update /\ loc[s].exists)
        => /\ pc[s] # "read"
           /\ Ended(s)
              => /\ loc[s].outcome \notin {"Matched", "Mismatched"}
                 /\ loc[s].err # "read"
                 /\ (loc[s].outcome = "Updated" \/ loc[s].err = "write")
                    => /\ Cardinality(Notices(s)) = 1
                       /\ \A i \in 1..Len(tb[s].log) :
                             (tb[s].log[i].kind = "fatal"
                              /\ tb[s].log[i].msg = <<"Snap: could not write snapshot">>)
                             => \A n \in Notices(s) : n < i
                 /\ loc[s].outcome = "Updated"
                    => fs[Path(s)] = FileNode(loc[s].content)

\* an artifact with other bytes was overwritten, with the notice in the log
C27_Witness ==
    \E s \in Sessions :
        /\ Ended(s) /\ runner[s].update /\ loc[s].exists
        /\ Passed(loc[s], "Updated")
        /\ Found(s, loc[s]).kind = "file"
        /\ Found(s, loc[s]).data # Fresh(s)
        /\ fs[Path(s)] = FileNode(Fresh(s))
        /\ Notices(s) = {1}

\* C28: with update and clean unset in every session no step of a Snap call
\* changes an artifact that exists: whatever the values of the calls, every
\* regular file keeps its bytes.
C28_ExistingReadOnly ==
    [][(\A s \in Sessions : ~runner[s].update /\ ~runner[s].clean)
       => \A p \in AllPaths : fs[p].kind = "file" => fs'[p] = fs[p]]_vars

\* the artifact went through a call that did not match and a call whose
\* value does not serialise, and holds the bytes it had
C28_Witness ==
    \E s \in Sessions :
        /\ Ended(s) /\ ~runner[s].update /\ ~runner[s].clean
        /\ prev[s].outcome = "Mismatched"
        /\ FormatFails(s) /\ loc[s].outcome = "Mismatched"
        /\ Found(s, prev[s]).kind = "file"
        /\ fs[Path(s)] = Found(s, prev[s])

\* C29: in the compare branch the stored bytes go through the CRLF
\* normalisation and nothing else: the call ends in Matched exactly when
\* they are then the filtered fresh bytes, and a mismatch shows the diff of
\* them, unfiltered, against the filtered fresh bytes.
C29_StoredUnfiltered ==
    \A s \in Sessions :
        (Ended(s) /\ Comparing(s, loc[s]) /\ Looked(s, loc[s]) = "file")
        => /\ loc[s].outcome \in {"Matched", "Mismatched"}
           /\ Passed(loc[s], "Matched")
              <=> ReplaceCRLF(Found(s, loc[s]).data) = Fresh(s)
           /\ loc[s].outcome = "Mismatched"
              => tb[s].log[Len(tb[s].log)].msg
                 = <<"Mismatch", LF>>
                   \o prettyDiff(Diff("old", ReplaceCRLF(Found(s, loc[s]).data),
                                      "new", Fresh(s)),
                                 runner[s].noColor)

\* the stored bytes would be the fresh bytes had the filter run over them,
\* and the call reports the mismatch
C29_Witness ==
    \E s \in Sessions :
        /\ Ended(s) /\ Comparing(s, loc[s])
        /\ runner[s].filters = <<BtoA>>
        /\ Found(s, loc[s]) = FileNode(<<"b", LF>>)
        /\ Fresh(s) = <<"a", LF>>
        /\ ApplyFilters(runner[s].filters, Found(s, loc[s]).data) = Fresh(s)
        /\ loc[s].outcome = "Mismatched"

\* C30: the Runner that New has returned has a formatter, whatever the
\* options, so no Snap or Path call meets an absent formatter.
C30_FormatterAlwaysSet ==
    \A s \in Sessions :
        /\ pc[s] = "idle" => runner[s].formatter.kind # "nil"
        /\ pc[s] # "panicked"

\* the session was built with colour switched off
ColourOff(s) == \E i \in 1..Len(given[s]) : given[s][i] = Color(FALSE)

\* C26: the diff of a session's mismatch is rendered by that session's own
\* colour setting: coloured unless the session itself was built with colour
\* disabled, whatever sessions were built or used before it or beside it.
C26_ColourPerSession ==
    \A s \in Sessions :
        loc[s].outcome = "Mismatched"
        => tb[s].log[Len(tb[s].log)].msg
           = <<"Mismatch", LF>>
             \o prettyDiff(Diff("previous", ReplaceCRLF(loc[s].fs0[ShotterPath(s)].data),
                                "current", loc[s].content),
                           ColourOff(s))

-----------------------------------------------------------------------------
(* Properties of prettyDiff *)

\* C22: with colour disabled the renderer returns the diff text unchanged,
\* whatever the text.
C22_NoColourPassthrough ==
    (ret.returned /\ arg.noColor) => ret.text = arg.diff

\* a text with a removal line went through unchanged
C22_Witness ==
    /\ ret.returned /\ arg.noColor
    /\ arg.diff = <<"-", " ", "a", LF, "a">>
    /\ ret.text = arg.diff

\* the lines of a text: the runs of characters between its line feeds
LinesOf(text) ==
    LET ends == {i \in 1..Len(text) : text[i] = LF} \cup {Len(text) + 1}
        Nth[n \in 1..Cardinality(ends)] ==
            IF n = 1 THEN CHOOSE e \in ends : \A x \in ends : e <= x
            ELSE CHOOSE e \in ends : e > Nth[n - 1] /\ \A x \in ends : x > Nth[n - 1] => e <= x
    IN  [n \in 1..Cardinality(ends) |->
            SubSeq(text, (IF n = 1 THEN 0 ELSE Nth[n - 1]) + 1, Nth[n] - 1)]

\* a line without the blanks at its two ends
Bare(line) ==
    LET inked == {i \in 1..Len(line) : line[i] \notin {" ", "\t", CR, LF}}
    IN  IF inked = {} THEN <<>>
        ELSE SubSeq(line, CHOOSE i \in inked : \A j \in inked : i <= j,
                          CHOOSE i \in inked : \A j \in inked : j <= i)

Starts(line, p) == Len(p) <= Len(line) /\ \A i \in 1..Len(p) : line[i] = p[i]

\* the role of a line of the diff
Role(line) ==
    LET t == Bare(line)
    IN  IF Starts(t, <<"-", "-", "-">>) \/ Starts(t, <<"-", " ">>) THEN "red"
        ELSE IF Starts(t, <<"@", "@">>) THEN "header"
        ELSE IF Starts(t, <<"+", "+", "+">>) \/ Starts(t, <<"+", " ">>) THEN "green"
        ELSE "none"

\* C23: with colour enabled the output has the lines of the diff, as many
\* and in the same order, joined by line feeds; a line whose trimmed text
\* starts with "---" or "- " is coloured as a removal, with "@@" as a header,
\* with "+++" or "+ " as an addition, each by one role only, and every other
\* line is unchanged.
C23_LineClassification ==
    (ret.returned /\ ~arg.noColor)
    => LET in == LinesOf(arg.diff)
           out == LinesOf(ret.text)
       IN  /\ Len(out) = Len(in)
           /\ \A i \in 1..Len(in) :
                 out[i] = IF Role(in[i]) = "none" THEN in[i]
                          ELSE <<Role(in[i])>> \o in[i] \o <<"reset">>

\* an indented removal is coloured, the empty line after it is not
C23_Witness ==
    /\ ret.returned /\ ~arg.noColor
    /\ arg.diff = <<" ", "-", " ", "a", LF>>
    /\ ret.text = <<"red", " ", "-", " ", "a", "reset", LF>>

-----------------------------------------------------------------------------
(* Properties of Path *)

\* the '/'-separated segments of a test identity
RECURSIVE SegmentsOf(_, _)
SegmentsOf(name, cur) ==
    IF Len(name) = 0 THEN <<cur>>
    ELSE IF name[1] = Slash THEN <<cur>> \o SegmentsOf(Tail(name), <<>>)
         ELSE SegmentsOf(Tail(name), Append(cur, name[1]))

\* testdata/snapshots/<identity><extension>: one directory level for each
\* segment of the identity but the last, which with the extension names the
\* file
Nested(name, ext) ==
    LET segs == SegmentsOf(name, <<>>)
    IN  <<<<"testdata">>, <<"snapshots">>>>
        \o [i \in 1..Len(segs) |-> IF i = Len(segs) THEN segs[i] \o ext ELSE segs[i]]

\* C15: Path() is testdata/snapshots/<identity><extension>, each
\* '/'-separated segment of the identity one nested directory level and the
\* last segment with the extension the file name.
C15_PathDerivation ==
    ret.returned => ret.path = Nested(arg.name, arg.ext)

\* C16: two different test identities with the same extension never get the
\* same path.
C16_DistinctPaths ==
    ret.returned
    => \A other \in Identities :
          other # arg.name => PathOf(other, arg.ext) # ret.path

-----------------------------------------------------------------------------
(* Properties of the filter pipeline *)

\* the filters composed from left to right over b
Composed(filters, b) ==
    LET F[i \in 0..Len(filters)] ==
            IF i = 0 THEN b ELSE ReplaceAll(filters[i], F[i - 1])
    IN  F[Len(filters)]

\* C11: the pipeline applies every registered filter as a global replace-all
\* in the order of registration, each on the output of the one before: its
\* result is the left-to-right composition of the filters over the bytes.
C11_FilterOrder ==
    ret.returned => ret.once = Composed(arg.filters, arg.bytes)

\* two filters whose order shows in the result
C11_Witness ==
    /\ ret.returned
    /\ arg.filters = <<AtoB, BtoA>>
    /\ arg.bytes = <<"a", "b">>
    /\ ret.once = <<"a", "a">>
    /\ ret.once # Composed(<<BtoA, AtoB>>, arg.bytes)

\* no replacement of the list holds a text that a pattern of the list matches
NoReintroduce(filters) ==
    \A i, j \in 1..Len(filters) :
        ~Contains(filters[i].replacement, filters[j].pattern)

MatchFree(filters, b) ==
    \A i \in 1..Len(filters) : ~Contains(b, filters[i].pattern)

-----------------------------------------------------------------------------
(* Properties of the resolver *)

\* the strategies in the documented order of priority
Order ==
    <<"Snapper", "json.Marshaler", "encoding.TextMarshaler", "Stringer",
      "primitive", "fallback">>

\* the k-th strategy applies to val
Applies(val, k) ==
    CASE k = 1 -> val.snap # Absent
      [] k = 2 -> val.json # Absent
      [] k = 3 -> val.text # Absent
      [] k = 4 -> val.str # Absent
      [] k = 5 -> val.primitive
      [] OTHER -> TRUE

\* the first strategy of the order that applies to val
FirstApplicable(val) ==
    CHOOSE k \in 1..Len(Order) :
        Applies(val, k) /\ \A j \in 1..(k - 1) : ~Applies(val, j)

\* what the k-th strategy renders for val
Rendering(val, k) ==
    CASE k = 1 -> val.snap
      [] k = 2 -> IF val.json.err THEN Failure ELSE Indent(val.json.bytes)
      [] k = 3 -> val.text
      [] k = 4 -> val.str
      [] k = 5 -> Ok(val.v)
      [] OTHER -> Ok(val.gov)

\* C6: for a value with any subset of the capabilities the resolver uses the
\* first that applies in the order Snapper, json.Marshaler (indented),
\* encoding.TextMarshaler, fmt.Stringer, primitive (%v), fallback (%#v), and
\* its failure is not followed by a lower strategy; a value that is both a
\* Snapper and a Stringer is rendered from its Snap() bytes, never from its
\* String() form.
C6_StrategyPriority ==
    ret.returned
    => LET val == arg.value
           k == FirstApplicable(val)
           want == Rendering(val, k)
           r == ret.result
       IN  /\ r.strategy = Order[k]
           /\ r.err = want.err
           /\ IF want.err
              THEN r.content = <<>> /\ r.tb.failed
              ELSE /\ r.content = ApplyFilters(arg.filters, ReplaceCRLF(want.bytes))
                   /\ ~r.tb.failed
           /\ (val.snap # Absent /\ val.str # Absent)
              => /\ r.strategy = "Snapper"
                 /\ ~val.snap.err
                    => /\ r.content = ApplyFilters(arg.filters, ReplaceCRLF(val.snap.bytes))
                       /\ r.content # ApplyFilters(arg.filters, ReplaceCRLF(val.str.bytes))

\* a Snapper that is a Stringer and a json.Marshaler too, rendered through a filter
C6_Witness ==
    /\ ret.returned
    /\ arg.value.snap # Absent /\ ~arg.value.snap.err
    /\ arg.value.str # Absent
    /\ arg.value.json # Absent
    /\ arg.filters # <<>>
    /\ ret.result.strategy = "Snapper"
    /\ ret.result.content = <<"s", LF, "a">>

====
